---- MODULE Spec2Model ----
(***************************************************************************)
(* A model of AtollClient (src/src/atollClient.ts, lines 1-271) together   *)
(* with the state of the module-level transport object restApi that it     *)
(* drives (src/src/restApi.ts).                                            *)
(*                                                                         *)
(* Strings that the code inspects or concatenates (URLs, URIs, error       *)
(* texts) are sequences of symbols, "/" always being a symbol of its own.  *)
(* An optional value (T | null) is None or Some(v).                        *)
(*                                                                         *)
(* Every async method is cut at its awaits of a transport call: one action *)
(* per synchronous stretch between two such awaits.  Tasks stands for the  *)
(* call sites of the embedding application that may overlap in time.  A    *)
(* call that ends leaves its outcome in `ended` for one step, and a run of *)
(* the onAuthFailure hook leaves its outcome in `hookRun` for one step.    *)
(*                                                                         *)
(* Two specifications share the actions.  Under Spec the calls of the      *)
(* tasks overlap freely.  Under SeqSpec a call starts only when no other   *)
(* call is in progress, and every call records the session it started in   *)
(* (pre), for the statements that compare the session after a call with    *)
(* the session before it.                                                  *)
(***************************************************************************)
EXTENDS Naturals, Sequences, FiniteSets

\* ---------------------------------------------------------------- bounds
NumTasks == 2
MaxLinks == 2

Tasks == 1 .. NumTasks

\* ------------------------------------------------------- optional values
None == <<>>
Some(v) == <<v>>
Get(o) == o[1]
\* JavaScript truthiness of a `string | null`: null and "" are falsy.
Truthy(o) == o # None /\ Get(o) # <<>>

\* ------------------------------------------------------------- constants
MAP_RELATIVE_URL == <<"/", "api", "/", "v1">>

\* --------------------------------------------------- inputs of the model
HostInputs == { <<"https://a", "/">>, <<"https://b">> }
\* connect and setupWithRefreshToken take a HostNotificationHandler, a function.
HandlerInputs == { Some("handler") }
\* The token pairs a server may issue: [authToken, refreshToken].
TokenPair(authToken, refreshToken) == [authToken |-> authToken, refreshToken |-> refreshToken]
TokenPairs == { TokenPair(<<"t1">>, <<"r1">>), TokenPair(<<"t2">>, <<"r2">>) }
NoTokens == TokenPair(<<>>, <<>>)

Link(rel, uri) == [rel |-> rel, uri |-> uri]
Item(id, links) == [id |-> id, links |-> links]

LoginItem == Item("user-auth", << Link("action", <<"/", "login">>) >>)
RefreshItem == Item("refresh-token", << Link("action", <<"/", "refresh">>) >>)
ProjectsItem == Item("projects", << Link("collection", <<"/", "projects">>) >>)

\* The item lists a server may answer the map request with.
MapResponses ==
    { << LoginItem, RefreshItem, ProjectsItem >>,
      << LoginItem >>,
      << RefreshItem, ProjectsItem >> }

\* The errors the transport may reject a request with (RestApiFetchError).
FetchError(type, status, message) == [errorType |-> type, status |-> status, message |-> message]
TransportErrors ==
    { FetchError("ApiError", "404", "not found"),
      FetchError("ApiError", "0", "network error"),
      FetchError("UnexpectedError", "none", "malformed") }

\* URIs a caller may hand to the fetch...ByUri methods.
UriInputs == { <<"https://a", "/", "sprints", "/", "1">>, <<"sprints", "/", "1">> }

\* The links lists the helpers are applied to: every list of at most MaxLinks
\* of these links.
UtilRels == { "action", "collection" }
UtilLinks ==
    { Link("action", <<"/", "login">>), Link("action", <<"/", "signin">>),
      Link("collection", <<"/", "projects">>) }
UtilLinkLists == UNION { [1 .. n -> UtilLinks] : n \in 0 .. MaxLinks }

\* The ids the code resolves (lines 120, 154, 202, 234).
UtilIds == { "refresh-token", "user-auth", "projects" }

\* Map responses with every such list as the links of user-auth.
UtilMapResponses ==
    { << >> } \cup { << Item("user-auth", links) >> : links \in UtilLinkLists }
              \cup { << ProjectsItem, Item("user-auth", links) >> : links \in UtilLinkLists }

\* The URLs canonicalizeUrl is applied to.
UrlInputs ==
    { << >>, <<"/">>, <<"https://h">>, <<"https://h", "/">>, <<"https://h", "/", "/">> }

\* ------------------------------------------------------------ results
\* How a call ended: kind is "pending", "returned" or "threw" (an async
\* method that throws rejects its promise); val is the returned value or the
\* thrown error as a sequence of symbols.
Pending == [kind |-> "pending", val |-> <<>>]
Returned(v) == [kind |-> "returned", val |-> v]
Threw(v) == [kind |-> "threw", val |-> v]
NullValue == <<"null">>
DataValue == <<"data">>

VARIABLES
    connecting,            \* AtollClient.connecting
    refreshToken,          \* AtollClient.refreshToken
    apiMap,                \* AtollClient.apiMap
    canonicalHostBaseUrl,  \* AtollClient.canonicalHostBaseUrl
    notificationHandler,   \* AtollClient.notificationHandler
    onAuthFailure,         \* restApi.onAuthFailure
    authHeader,            \* restApi's default header "Authorization"
    task,                  \* the calls in progress, one per task
    ended,                 \* the call that ended in the last step, if one did
    hookRun,               \* the run of the onAuthFailure hook in the last step, if any
    apiMapHost,            \* history: the host the stored apiMap was fetched from
    overlap                \* whether calls may overlap (fixed by the initial state)

vars == << connecting, refreshToken, apiMap, canonicalHostBaseUrl, notificationHandler,
           onAuthFailure, authHeader, task, ended, hookRun, apiMapHost, overlap >>

session == << connecting, refreshToken, apiMap, canonicalHostBaseUrl, notificationHandler >>
transport == << onAuthFailure, authHeader >>

\* ------------------------------------------------------ pure functions
\* url.endsWith("/") ? url.substring(0, url.length - 1) : url
canonicalizeUrl(url) ==
    IF Len(url) > 0 /\ url[Len(url)] = "/" THEN SubSeq(url, 1, Len(url) - 1) ELSE url

\* `${baseUri}${relativeUri}`
buildUriFromBaseAndRelative(baseUri, relativeUri) == baseUri \o relativeUri

\* buildApiMapIndex as it would be if it filled the stored map instead of a
\* new object.
RECURSIVE IndexOfKeeping(_, _)
IndexOfKeeping(items, n) ==
    IF n = 0 THEN (IF apiMap = None THEN {} ELSE Get(apiMap))
    ELSE { e \in IndexOfKeeping(items, n - 1) : e.id # items[n].id } \cup { items[n] }

\* The object buildApiMapIndex fills: the first n items of the response, a later
\* item replacing an earlier one with the same id.  An index is the set of its
\* entries, at most one per id.
RECURSIVE IndexOf(_, _)
IndexOf(items, n) ==
    IF n = 0 THEN {}
    ELSE { e \in IndexOf(items, n - 1) : e.id # items[n].id } \cup { items[n] }

\* lookupRelativeUriFromApiMap as it would be if it took the first match of
\* several.
lookupRelativeUriFromApiMapFirstMatch(map, id, rel) ==
    IF map = None THEN Threw(<<"Error", "API Map needs to be retrieved first!">>)
    ELSE LET found == { e \in Get(map) : e.id = id } IN
         IF found = {} THEN Threw(<<"Error", "Unable to find API Map Item with ID", id>>)
         ELSE LET endpointMapItem == CHOOSE e \in found : TRUE
                  matchingActions == SelectSeq(endpointMapItem.links, LAMBDA link : link.rel = rel)
              IN IF Len(matchingActions) = 0
                 THEN Threw(<<"Error", "Unable to find a matching API Map Item Link with rel", rel>>)
                 ELSE Returned(matchingActions[1].uri)

\* lookupRelativeUriFromApiMap, reading the map `map`
lookupRelativeUriFromApiMap(map, id, rel) ==
    IF map = None THEN Threw(<<"Error", "API Map needs to be retrieved first!">>)
    ELSE LET found == { e \in Get(map) : e.id = id } IN
         IF found = {} THEN Threw(<<"Error", "Unable to find API Map Item with ID", id>>)
         ELSE LET endpointMapItem == CHOOSE e \in found : TRUE
                  matchingActions == SelectSeq(endpointMapItem.links, LAMBDA link : link.rel = rel)
              IN IF Len(matchingActions) = 0
                 THEN Threw(<<"Error", "Unable to find a matching API Map Item Link with rel", rel>>)
                 ELSE IF Len(matchingActions) > 1
                 THEN Threw(<<"Error", "Found matching API Map Item Links with rel", rel>>)
                 ELSE Returned(matchingActions[1].uri)

\* lookupUriFromApiMap, reading the host `host` and the map `map`
lookupUriFromApiMap(host, map, id, rel) ==
    IF ~Truthy(host)
    THEN Threw(<<"Error", "Unable to look up a URI without the host base URL being set first!">>)
    ELSE LET uri == lookupRelativeUriFromApiMap(map, id, rel) IN
         IF uri.kind = "threw" THEN uri ELSE Returned(Get(host) \o uri.val)

\* buildErrorResult as it would be if it turned every error into text.
buildErrorResultAlwaysText(error, functionName) ==
    Returned(<<"Atoll REST API error: ", error.status, " - ", error.message,
               " (", functionName, ")">>)

\* buildErrorResult: an UnexpectedError is rethrown, any other error becomes text.
buildErrorResult(error, functionName) ==
    IF error.errorType = "UnexpectedError"
    THEN Threw(<<"Error", error.message, " (", functionName, ")">>)
    ELSE Returned(<<"Atoll REST API error: ", error.status, " - ", error.message,
                    " (", functionName, ")">>)

\* A rejection of the transport, propagated unchanged.
Rejected(error) == Threw(<<"RestApiFetchError", error.errorType, error.status, error.message>>)

isConnecting == connecting
isConnected == Truthy(refreshToken)

\* Whether a URI is a full (absolute) one.
isValidFullUri(uri) == Len(uri) > 0 /\ uri[1] \in { "https://a", "https://b" }

\* findLinkByRel as it would be if it took the first match of several.
findLinkByRelFirstMatch(links, rel) ==
    LET matchingLinks == SelectSeq(links, LAMBDA link : link.rel = rel) IN
    IF Len(matchingLinks) = 0 THEN Returned(None) ELSE Returned(Some(matchingLinks[1]))

\* findLinkByRel, lines 253-263: null (None), the link, or an error.
findLinkByRel(links, rel) ==
    LET matchingLinks == SelectSeq(links, LAMBDA link : link.rel = rel)
        matchingLinkCount == Len(matchingLinks)
    IN IF matchingLinkCount = 0 THEN Returned(None)
       ELSE IF matchingLinkCount > 1
       THEN Threw(<<"Error", "findLinkUrlByRel matched several - expecting 1!", rel>>)
       ELSE Returned(Some(matchingLinks[1]))

\* findLinkUriByRel, lines 264-270: an error of findLinkByRel propagates.
findLinkUriByRel(links, rel) ==
    LET link == findLinkByRel(links, rel) IN
    IF link.kind = "threw" THEN link
    ELSE IF link.val = None THEN Returned(None)
    ELSE Returned(Some(Get(link.val).uri))


\* ------------------------------------------------------------------ tasks
\* The session as a call finds it when it starts (recorded under SeqSpec).
NoSnapshot ==
    [recorded |-> FALSE, refreshToken |-> None, canonicalHostBaseUrl |-> None,
     apiMap |-> None]
Snapshot ==
    IF overlap THEN NoSnapshot
    ELSE [recorded |-> TRUE, refreshToken |-> refreshToken,
          canonicalHostBaseUrl |-> canonicalHostBaseUrl, apiMap |-> apiMap]

\* op: the method called; pc: "idle" or the request awaited ("map", "login",
\* "refresh", "get"); host: the local canonicalHostBaseUrl; handler: the
\* notificationHandler argument; uri, payload, skipRetry: the request in
\* flight; pre: the session when the call started.
IdleTask ==
    [op |-> "none", pc |-> "idle", host |-> <<>>, handler |-> None, uri |-> <<>>,
     payload |-> None, skipRetry |-> FALSE, pre |-> NoSnapshot]

Started(op, host, handler) ==
    [IdleTask EXCEPT !.op = op, !.host = host, !.handler = handler, !.pre = Snapshot]

\* The call awaits the answer to a request.
Awaiting(tk, pc, uri, payload, skipRetry) ==
    [tk EXCEPT !.pc = pc, !.uri = uri, !.payload = payload, !.skipRetry = skipRetry]

\* The outcome of the call of task record tk: its result and the answers
\* ("ok", "failed") the transport gave to its requests, in order; under
\* SeqSpec also its local canonicalHostBaseUrl and the session it started in.
NoCall == [op |-> "none", host |-> <<>>, result |-> Pending, io |-> <<>>, pre |-> NoSnapshot]
Outcome(tk, result, io) ==
    [op |-> tk.op, host |-> IF overlap THEN <<>> ELSE tk.host, result |-> result,
     io |-> io, pre |-> tk.pre]

\* The history of where the map came from (recorded under SeqSpec).
FetchedFrom(host) == IF overlap THEN None ELSE Some(host)

\* Task t may start a call.
CanStart(t) ==
    /\ task[t].pc = "idle"
    /\ overlap \/ \A u \in Tasks : task[u].pc = "idle"

\* A run of the hook: the answer the refresh endpoint has for it ("ok" or
\* "failed"), the token pair it issued (NoTokens: it got no request), how the
\* hook's promise settled ("true", "false", "rejected"), the messages the
\* handler received and the refresh token the hook's refresh request carried
\* (None: no request was sent).
NoHookRun ==
    [result |-> "none", answer |-> "none", issued |-> NoTokens, notified |-> <<>>,
     sent |-> None]

Init ==
    /\ connecting = FALSE
    /\ refreshToken = None
    /\ apiMap = None
    /\ canonicalHostBaseUrl = None
    /\ notificationHandler = None
    /\ onAuthFailure = None
    /\ authHeader = None
    /\ task = [t \in Tasks |-> IdleTask]
    /\ ended = NoCall
    /\ hookRun = NoHookRun
    /\ apiMapHost = None
    /\ overlap = TRUE

\* The same client, its calls made one after the other.
SeqInit ==
    /\ connecting = FALSE
    /\ refreshToken = None
    /\ apiMap = None
    /\ canonicalHostBaseUrl = None
    /\ notificationHandler = None
    /\ onAuthFailure = None
    /\ authHeader = None
    /\ task = [t \in Tasks |-> IdleTask]
    /\ ended = NoCall
    /\ hookRun = NoHookRun
    /\ apiMapHost = None
    /\ overlap = FALSE

\* A step of task t that ends its call with `result`.
Ends(t, tk, result, io) ==
    /\ task' = [task EXCEPT ![t] = IdleTask]
    /\ ended' = Outcome(tk, result, io)

\* A step of task t that leaves its call awaiting a request.
Waits(t, tk) ==
    /\ task' = [task EXCEPT ![t] = tk]
    /\ ended' = NoCall

\* ---------------------------------------------------------------- connect
\* connect as it would be without the guard of lines 194-196.
ConnectCallUnguarded(t, hostBaseUrl, handler) ==
    /\ CanStart(t)
    /\ LET host == canonicalizeUrl(hostBaseUrl)
           tk == Started("connect", host, handler)
       IN Waits(t, Awaiting(tk, "map", host \o MAP_RELATIVE_URL, None, FALSE))
    /\ hookRun' = NoHookRun
    /\ UNCHANGED << session, transport, apiMapHost, overlap >>

\* connect, lines 194-198: the guard, the canonical host, the map request.
ConnectCall(t, hostBaseUrl, handler) ==
    /\ CanStart(t)
    /\ LET host == canonicalizeUrl(hostBaseUrl)
           tk == Started("connect", host, handler)
       IN IF connecting
          THEN Ends(t, tk, Threw(<<"Error", "Another connection is already in progress!">>), <<>>)
          ELSE Waits(t, Awaiting(tk, "map", host \o MAP_RELATIVE_URL, None, FALSE))
    /\ hookRun' = NoHookRun
    /\ UNCHANGED << session, transport, apiMapHost, overlap >>

\* connect, line 198: the map request is rejected and nothing catches it.
ConnectMapFailed(t, error) ==
    /\ task[t].op = "connect" /\ task[t].pc = "map"
    /\ Ends(t, task[t], Rejected(error), <<"failed">>)
    /\ hookRun' = NoHookRun
    /\ UNCHANGED << session, transport, apiMapHost, overlap >>

\* connect as it would be if it sent the login request without registering
\* the hook first (without line 199).
ConnectMapLoadedUnregistered(t, items) ==
    /\ task[t].op = "connect" /\ task[t].pc = "map"
    /\ LET tk == task[t]
           map == Some(IndexOf(items, Len(items)))
           authUrl == lookupRelativeUriFromApiMap(map, "user-auth", "action")
       IN /\ apiMap' = map
          /\ apiMapHost' = FetchedFrom(tk.host)
          /\ notificationHandler' = tk.handler
          /\ IF authUrl.kind = "threw"
             THEN /\ Ends(t, tk, authUrl, <<"ok">>)
                  /\ UNCHANGED connecting
             ELSE /\ connecting' = TRUE
                  /\ Waits(t, Awaiting(tk, "login",
                               buildUriFromBaseAndRelative(tk.host, authUrl.val),
                               Some(<<"username", "password">>), FALSE))
    /\ hookRun' = NoHookRun
    /\ UNCHANGED << refreshToken, canonicalHostBaseUrl, onAuthFailure, authHeader, overlap >>

\* connect, lines 198-208: the map is indexed, the hook registered, the
\* handler stored, the login URI resolved and the login request sent.
ConnectMapLoaded(t, items) ==
    /\ task[t].op = "connect" /\ task[t].pc = "map"
    /\ LET tk == task[t]
           map == Some(IndexOf(items, Len(items)))
           refreshTokenUri == lookupUriFromApiMap(canonicalHostBaseUrl, map, "refresh-token", "action")
           authUrl == lookupRelativeUriFromApiMap(map, "user-auth", "action")
       IN /\ apiMap' = map
          /\ apiMapHost' = FetchedFrom(tk.host)
          /\ IF refreshTokenUri.kind = "threw"
             THEN /\ Ends(t, tk, refreshTokenUri, <<"ok">>)
                  /\ UNCHANGED << onAuthFailure, notificationHandler, connecting >>
             ELSE /\ onAuthFailure' = Some(refreshTokenUri.val)
                  /\ notificationHandler' = tk.handler
                  /\ IF authUrl.kind = "threw"
                     THEN /\ Ends(t, tk, authUrl, <<"ok">>)
                          /\ UNCHANGED connecting
                     ELSE /\ connecting' = TRUE
                          /\ Waits(t, Awaiting(tk, "login",
                                       buildUriFromBaseAndRelative(tk.host, authUrl.val),
                                       Some(<<"username", "password">>), FALSE))
    /\ hookRun' = NoHookRun
    /\ UNCHANGED << refreshToken, canonicalHostBaseUrl, authHeader, overlap >>

\* connect, lines 208-213: the login request succeeds.
ConnectLoginSucceeded(t, tokens) ==
    /\ task[t].op = "connect" /\ task[t].pc = "login"
    /\ connecting' = FALSE
    /\ authHeader' = Some(<<"Bearer  ">> \o tokens.authToken)
    /\ refreshToken' = Some(tokens.refreshToken)
    /\ canonicalHostBaseUrl' = Some(task[t].host)
    /\ Ends(t, task[t], Returned(NullValue), <<"ok", "ok">>)
    /\ hookRun' = NoHookRun
    /\ UNCHANGED << apiMap, notificationHandler, onAuthFailure, apiMapHost, overlap >>

\* connect, lines 214-217: the login request is rejected.
ConnectLoginFailed(t, error) ==
    /\ task[t].op = "connect" /\ task[t].pc = "login"
    /\ connecting' = FALSE
    /\ Ends(t, task[t], buildErrorResult(error, "connect"), <<"ok", "failed">>)
    /\ hookRun' = NoHookRun
    /\ UNCHANGED << refreshToken, apiMap, canonicalHostBaseUrl, notificationHandler,
                    transport, apiMapHost, overlap >>

\* -------------------------------------------------- setupWithRefreshToken
\* setupWithRefreshToken, lines 144-147: the host is stored, the map requested.
SetupCall(t, hostBaseUrl, handler) ==
    /\ CanStart(t)
    /\ LET host == canonicalizeUrl(hostBaseUrl) IN
       /\ canonicalHostBaseUrl' = Some(host)
       /\ Waits(t, Awaiting(Started("setupWithRefreshToken", host, handler), "map",
                            host \o MAP_RELATIVE_URL, None, FALSE))
    /\ hookRun' = NoHookRun
    /\ UNCHANGED << connecting, refreshToken, apiMap, notificationHandler, transport,
                    apiMapHost, overlap >>

\* setupWithRefreshToken, lines 148-150: the map request is rejected.
SetupMapFailed(t, error) ==
    /\ task[t].op = "setupWithRefreshToken" /\ task[t].pc = "map"
    /\ Ends(t, task[t], buildErrorResult(error, "commonSetup"), <<"failed">>)
    /\ hookRun' = NoHookRun
    /\ UNCHANGED << session, transport, apiMapHost, overlap >>

\* setupWithRefreshToken as it would be if its refresh request left the
\* transport's retry on an authentication failure on.
SetupMapLoadedRetrying(t, items) ==
    /\ task[t].op = "setupWithRefreshToken" /\ task[t].pc = "map"
    /\ LET tk == task[t]
           map == Some(IndexOf(items, Len(items)))
           refreshTokenUri == lookupUriFromApiMap(canonicalHostBaseUrl, map, "refresh-token", "action")
       IN /\ apiMap' = map
          /\ apiMapHost' = FetchedFrom(tk.host)
          /\ IF refreshTokenUri.kind = "threw"
             THEN /\ Ends(t, tk, refreshTokenUri, <<"ok">>)
                  /\ UNCHANGED << onAuthFailure, notificationHandler >>
             ELSE /\ onAuthFailure' = Some(refreshTokenUri.val)
                  /\ notificationHandler' = tk.handler
                  /\ Waits(t, Awaiting(tk, "refresh", refreshTokenUri.val,
                                       Some(refreshToken), FALSE))
    /\ hookRun' = NoHookRun
    /\ UNCHANGED << connecting, refreshToken, canonicalHostBaseUrl, authHeader, overlap >>

\* setupWithRefreshToken, lines 147-160: the map is indexed, the hook
\* registered, the handler stored and the refresh request sent.
SetupMapLoaded(t, items) ==
    /\ task[t].op = "setupWithRefreshToken" /\ task[t].pc = "map"
    /\ LET tk == task[t]
           map == Some(IndexOf(items, Len(items)))
           refreshTokenUri == lookupUriFromApiMap(canonicalHostBaseUrl, map, "refresh-token", "action")
       IN /\ apiMap' = map
          /\ apiMapHost' = FetchedFrom(tk.host)
          /\ IF refreshTokenUri.kind = "threw"
             THEN /\ Ends(t, tk, refreshTokenUri, <<"ok">>)
                  /\ UNCHANGED << onAuthFailure, notificationHandler >>
             ELSE /\ onAuthFailure' = Some(refreshTokenUri.val)
                  /\ notificationHandler' = tk.handler
                  /\ Waits(t, Awaiting(tk, "refresh", refreshTokenUri.val,
                                       Some(refreshToken), TRUE))
    /\ hookRun' = NoHookRun
    /\ UNCHANGED << connecting, refreshToken, canonicalHostBaseUrl, authHeader, overlap >>

\* setupWithRefreshToken, lines 161-165: the refresh request succeeds.
SetupRefreshSucceeded(t, tokens) ==
    /\ task[t].op = "setupWithRefreshToken" /\ task[t].pc = "refresh"
    /\ authHeader' = Some(<<"Bearer  ">> \o tokens.authToken)
    /\ refreshToken' = Some(tokens.refreshToken)
    /\ Ends(t, task[t], Returned(NullValue), <<"ok", "ok">>)
    /\ hookRun' = NoHookRun
    /\ UNCHANGED << connecting, apiMap, canonicalHostBaseUrl, notificationHandler,
                    onAuthFailure, apiMapHost, overlap >>

\* setupWithRefreshToken, lines 166-168: the refresh request is rejected.
SetupRefreshFailed(t, error) ==
    /\ task[t].op = "setupWithRefreshToken" /\ task[t].pc = "refresh"
    /\ Ends(t, task[t], buildErrorResult(error, "commonSetup"), <<"ok", "failed">>)
    /\ hookRun' = NoHookRun
    /\ UNCHANGED << session, transport, apiMapHost, overlap >>

\* ------------------------------------------------------------- disconnect
\* disconnect as it would be without the guard of lines 220-222.
DisconnectUnguarded(t) ==
    /\ CanStart(t)
    /\ Ends(t, Started("disconnect", <<>>, None), Returned(<<"undefined">>), <<>>)
    /\ refreshToken' = IF isConnected THEN None ELSE refreshToken
    /\ hookRun' = NoHookRun
    /\ UNCHANGED << connecting, apiMap, canonicalHostBaseUrl, notificationHandler,
                    transport, apiMapHost, overlap >>

\* disconnect as it would be if it reset the whole session.
DisconnectResetting(t) ==
    /\ CanStart(t)
    /\ LET tk == Started("disconnect", <<>>, None) IN
       IF isConnecting
       THEN /\ Ends(t, tk, Threw(<<"Error", "Unable to disconnect while connection is being established!">>), <<>>)
            /\ UNCHANGED << refreshToken, apiMap, canonicalHostBaseUrl >>
       ELSE /\ Ends(t, tk, Returned(<<"undefined">>), <<>>)
            /\ refreshToken' = None
            /\ apiMap' = None
            /\ canonicalHostBaseUrl' = None
    /\ hookRun' = NoHookRun
    /\ UNCHANGED << connecting, notificationHandler, transport, apiMapHost, overlap >>

\* disconnect as it would be if it also took the hook and the header off the
\* transport.
DisconnectUnregistering(t) ==
    /\ CanStart(t)
    /\ LET tk == Started("disconnect", <<>>, None) IN
       IF isConnecting
       THEN /\ Ends(t, tk, Threw(<<"Error", "Unable to disconnect while connection is being established!">>), <<>>)
            /\ UNCHANGED << refreshToken, transport >>
       ELSE /\ Ends(t, tk, Returned(<<"undefined">>), <<>>)
            /\ refreshToken' = IF isConnected THEN None ELSE refreshToken
            /\ onAuthFailure' = None
            /\ authHeader' = None
    /\ hookRun' = NoHookRun
    /\ UNCHANGED << connecting, apiMap, canonicalHostBaseUrl, notificationHandler,
                    apiMapHost, overlap >>

\* disconnect, lines 219-226 (synchronous).
Disconnect(t) ==
    /\ CanStart(t)
    /\ LET tk == Started("disconnect", <<>>, None) IN
       IF isConnecting
       THEN /\ Ends(t, tk, Threw(<<"Error", "Unable to disconnect while connection is being established!">>), <<>>)
            /\ UNCHANGED refreshToken
       ELSE /\ Ends(t, tk, Returned(<<"undefined">>), <<>>)
            /\ refreshToken' = IF isConnected THEN None ELSE refreshToken
    /\ hookRun' = NoHookRun
    /\ UNCHANGED << connecting, apiMap, canonicalHostBaseUrl, notificationHandler,
                    transport, apiMapHost, overlap >>

\* ---------------------------------------------------------------- fetches
\* fetchProjects, lines 234-235: the URI is resolved and requested.
FetchProjectsCall(t) ==
    /\ CanStart(t)
    /\ LET tk == Started("fetchProjects", <<>>, None)
           projectsUri == lookupUriFromApiMap(canonicalHostBaseUrl, apiMap, "projects", "collection")
       IN IF projectsUri.kind = "threw"
          THEN Ends(t, tk, projectsUri, <<>>)
          ELSE Waits(t, Awaiting(tk, "get", projectsUri.val, None, FALSE))
    /\ hookRun' = NoHookRun
    /\ UNCHANGED << session, transport, apiMapHost, overlap >>

\* checkValidFullUri (lines 238-242) followed by the request, as both
\* fetch...ByUri methods do.
FetchByUri(t, op, uri) ==
    /\ CanStart(t)
    /\ LET tk == Started(op, <<>>, None) IN
       IF ~isValidFullUri(uri)
       THEN Ends(t, tk, Threw(<<"Error", "Invalid URI passed to", op>>), <<>>)
       ELSE Waits(t, Awaiting(tk, "get", uri, None, FALSE))
    /\ hookRun' = NoHookRun
    /\ UNCHANGED << session, transport, apiMapHost, overlap >>

\* fetchSprintByUri, lines 244-245.
FetchSprintByUriCall(t, sprintUri) == FetchByUri(t, "fetchSprintByUri", sprintUri)

\* fetchSprintBacklogItemsByUri, lines 249-250.
FetchSprintBacklogItemsByUriCall(t, sprintBacklogItemsUri) ==
    FetchByUri(t, "fetchSprintBacklogItemsByUri", sprintBacklogItemsUri)

IsFetch(op) == op \in { "fetchProjects", "fetchSprintByUri", "fetchSprintBacklogItemsByUri" }

\* Lines 236, 246, 251: the request succeeds and its data is returned.
FetchSucceeded(t) ==
    /\ IsFetch(task[t].op) /\ task[t].pc = "get"
    /\ Ends(t, task[t], Returned(DataValue), <<"ok">>)
    /\ hookRun' = NoHookRun
    /\ UNCHANGED << session, transport, apiMapHost, overlap >>

\* Lines 235, 245, 250: the request is rejected and nothing catches it.
FetchFailed(t, error) ==
    /\ IsFetch(task[t].op) /\ task[t].pc = "get"
    /\ Ends(t, task[t], Rejected(error), <<"failed">>)
    /\ hookRun' = NoHookRun
    /\ UNCHANGED << session, transport, apiMapHost, overlap >>

\* ------------------------------------------------------ the onAuthFailure hook
\* The `this` of the three notification methods when the hook calls them.
\* setupRestApiHandlers (lines 121-126) hands them over as bare method
\* references and the hook calls them as plain functions (lines 108, 111,
\* 114), so in the module's strict code their `this` is undefined.
HandlerReceiver == "undefined"

\* Lines 73-75, 78-80, 83-85: `this.notificationHandler` is read first; with
\* `this` undefined that read throws a TypeError.  Otherwise the handler, if
\* there is one, receives the message.
Notify(receiver, message) ==
    IF receiver = "undefined" THEN Threw(<<"TypeError">>)
    ELSE Returned(IF notificationHandler # None THEN <<message>> ELSE <<>>)

onAuthFailureNotification(receiver) == Notify(receiver, "Re-connecting to Atoll Server...")
onRefreshTokenSuccessNotification(receiver) == Notify(receiver, "Re-connected to Atoll Server")
onRefreshTokenFailureNotification(receiver) ==
    Notify(receiver, "Unable to re-connect to Atoll Server - trying signing in again")

\* The hook of lines 107-117, run with the refresh endpoint answering
\* `answer` ("ok", with the token pair `tokens`, or "failed"): how the hook's
\* promise settles, the messages the handler received, the refresh token the
\* refresh request carried (None: no request was sent) and the token pair
\* stored by fetchAuthTokenUsingRefreshToken (None: nothing was stored).
\* Line 108 is outside the try: a notification that throws there rejects the
\* hook before any request is sent.
AuthFailureHook(receiver, answer, tokens) ==
    LET reconnecting == onAuthFailureNotification(receiver)
        reconnected == onRefreshTokenSuccessNotification(receiver)
        failed == onRefreshTokenFailureNotification(receiver)
    IN IF reconnecting.kind = "threw"
       THEN [result |-> "rejected", notified |-> <<>>, sent |-> None, stored |-> None]
       ELSE IF answer = "ok" /\ reconnected.kind = "returned"
       THEN [result |-> "true", notified |-> reconnecting.val \o reconnected.val,
             sent |-> Some(refreshToken), stored |-> Some(tokens)]
       ELSE [result |-> IF failed.kind = "threw" THEN "rejected" ELSE "false",
             notified |-> reconnecting.val \o (IF failed.kind = "threw" THEN <<>> ELSE failed.val),
             sent |-> Some(refreshToken),
             stored |-> IF answer = "ok" THEN Some(tokens) ELSE None]

\* The run of the hook as it would be if it dropped the session's map.
AuthFailureDroppingMap(t, answer, tokens) ==
    /\ task[t].pc \in { "map", "login", "get" }
    /\ ~task[t].skipRetry
    /\ onAuthFailure # None
    /\ LET run == AuthFailureHook(HandlerReceiver, answer, tokens) IN
       /\ hookRun' = [result |-> run.result, answer |-> answer,
                      issued |-> IF run.sent = None THEN NoTokens ELSE tokens,
                      notified |-> run.notified, sent |-> run.sent]
       /\ IF run.stored = None
          THEN UNCHANGED << refreshToken, authHeader >>
          ELSE /\ refreshToken' = Some(Get(run.stored).refreshToken)
               /\ authHeader' = Some(<<"Bearer  ">> \o Get(run.stored).authToken)
    /\ apiMap' = None
    /\ ended' = NoCall
    /\ UNCHANGED << connecting, canonicalHostBaseUrl, notificationHandler,
                    onAuthFailure, task, apiMapHost, overlap >>

\* The transport receives an authentication failure for a request sent
\* without skipRetryOnAuthFailure and calls the registered hook.  What the
\* transport then does with the request is its own business: the request
\* stays in flight and is answered by one of the actions above.
AuthFailure(t, answer, tokens) ==
    /\ task[t].pc \in { "map", "login", "get" }
    /\ ~task[t].skipRetry
    /\ onAuthFailure # None
    /\ LET run == AuthFailureHook(HandlerReceiver, answer, tokens) IN
       /\ hookRun' = [result |-> run.result, answer |-> answer,
                      issued |-> IF run.sent = None THEN NoTokens ELSE tokens,
                      notified |-> run.notified, sent |-> run.sent]
       /\ IF run.stored = None
          THEN UNCHANGED << refreshToken, authHeader >>
          ELSE /\ refreshToken' = Some(Get(run.stored).refreshToken)
               /\ authHeader' = Some(<<"Bearer  ">> \o Get(run.stored).authToken)
    /\ ended' = NoCall
    /\ UNCHANGED << connecting, apiMap, canonicalHostBaseUrl, notificationHandler,
                    onAuthFailure, task, apiMapHost, overlap >>

\* ------------------------------------------------------------ specification
Next ==
    \E t \in Tasks :
        \/ \E h \in HostInputs, n \in HandlerInputs : ConnectCall(t, h, n)
        \/ \E e \in TransportErrors : ConnectMapFailed(t, e)
        \/ \E m \in MapResponses : ConnectMapLoaded(t, m)
        \/ \E p \in TokenPairs : ConnectLoginSucceeded(t, p)
        \/ \E e \in TransportErrors : ConnectLoginFailed(t, e)
        \/ \E h \in HostInputs, n \in HandlerInputs : SetupCall(t, h, n)
        \/ \E e \in TransportErrors : SetupMapFailed(t, e)
        \/ \E m \in MapResponses : SetupMapLoaded(t, m)
        \/ \E p \in TokenPairs : SetupRefreshSucceeded(t, p)
        \/ \E e \in TransportErrors : SetupRefreshFailed(t, e)
        \/ Disconnect(t)
        \/ FetchProjectsCall(t)
        \/ \E u \in UriInputs : FetchSprintByUriCall(t, u)
        \/ \E u \in UriInputs : FetchSprintBacklogItemsByUriCall(t, u)
        \/ FetchSucceeded(t)
        \/ \E e \in TransportErrors : FetchFailed(t, e)
        \/ \E p \in TokenPairs : AuthFailure(t, "ok", p)
        \/ AuthFailure(t, "failed", NoTokens)

Spec == Init /\ [][Next]_vars

SeqSpec == SeqInit /\ [][Next]_vars

\* ------------------------------------------------- the synchronous helpers
\* A client whose map and host are any of the inputs, and on which only the
\* synchronous helpers are applied; `ended` holds the helper applied in the
\* last step and its result.
UtilInit ==
    /\ connecting = FALSE
    /\ refreshToken = None
    /\ apiMap \in { None } \cup { Some(IndexOf(m, Len(m))) : m \in UtilMapResponses }
    /\ canonicalHostBaseUrl \in { None } \cup { Some(canonicalizeUrl(h)) : h \in HostInputs }
    /\ notificationHandler = None
    /\ onAuthFailure = None
    /\ authHeader = None
    /\ task = [t \in Tasks |-> IdleTask]
    /\ ended = NoCall
    /\ hookRun = NoHookRun
    /\ apiMapHost = None
    /\ overlap = FALSE

\* The record of a helper applied: its name and its result.
Applied(op, result) == [NoCall EXCEPT !.op = op, !.result = result]

LookupRelativeUriFromApiMapCall(id, rel) ==
    /\ ended' = Applied("lookupRelativeUriFromApiMap", lookupRelativeUriFromApiMap(apiMap, id, rel))
    /\ UNCHANGED << session, transport, task, hookRun, apiMapHost, overlap >>

LookupUriFromApiMapCall(id, rel) ==
    /\ ended' = Applied("lookupUriFromApiMap",
                        lookupUriFromApiMap(canonicalHostBaseUrl, apiMap, id, rel))
    /\ UNCHANGED << session, transport, task, hookRun, apiMapHost, overlap >>

CanonicalizeUrlCall(url) ==
    /\ ended' = Applied("canonicalizeUrl", Returned(canonicalizeUrl(url)))
    /\ UNCHANGED << session, transport, task, hookRun, apiMapHost, overlap >>

FindLinkByRelCall(links, rel) ==
    /\ ended' = Applied("findLinkByRel", findLinkByRel(links, rel))
    /\ UNCHANGED << session, transport, task, hookRun, apiMapHost, overlap >>

FindLinkUriByRelCall(links, rel) ==
    /\ ended' = Applied("findLinkUriByRel", findLinkUriByRel(links, rel))
    /\ UNCHANGED << session, transport, task, hookRun, apiMapHost, overlap >>

UtilNext ==
    \/ \E id \in UtilIds, rel \in UtilRels : LookupRelativeUriFromApiMapCall(id, rel)
    \/ \E id \in UtilIds, rel \in UtilRels : LookupUriFromApiMapCall(id, rel)
    \/ \E url \in UrlInputs : CanonicalizeUrlCall(url)
    \/ \E links \in UtilLinkLists, rel \in UtilRels : FindLinkByRelCall(links, rel)
    \/ \E links \in UtilLinkLists, rel \in UtilRels : FindLinkUriByRelCall(links, rel)

UtilSpec == UtilInit /\ [][UtilNext]_vars

\* ------------------------------------------------------------------ claims
BusyError == Threw(<<"Error", "Another connection is already in progress!">>)
ConnectOps == { "connect", "setupWithRefreshToken" }

\* The session a call started in is the one the constructor leaves: without a
\* map and a host nothing else has been set either.
StartedFresh(call) ==
    /\ call.pre.recorded
    /\ call.pre.apiMap = None
    /\ call.pre.canonicalHostBaseUrl = None
    /\ call.pre.refreshToken = None

\* The transport answered every request of the call, and successfully.
NoRequestFailed(call) == call.io \in { <<"ok">>, <<"ok", "ok">> }

\* C1: a connect on a freshly constructed client whose map has user-auth with
\* exactly one "action" link, and whose requests all succeed, returns null and
\* leaves the client connected, not connecting, with host, map and tokens set.
C1_FreshConnectSucceeds ==
    ( /\ ended.op = "connect"
      /\ StartedFresh(ended)
      /\ NoRequestFailed(ended)
      /\ lookupRelativeUriFromApiMap(apiMap, "user-auth", "action").kind = "returned" )
    => /\ ended.result = Returned(NullValue)
       /\ isConnected
       /\ ~isConnecting
       /\ canonicalHostBaseUrl = Some(ended.host)
       /\ apiMap # None
       /\ authHeader # None

\* C2: no two executions of connect / setupWithRefreshToken are ever in
\* progress at the same time.
C2_OneConnectAtATime ==
    Cardinality({ t \in Tasks : task[t].op \in ConnectOps }) <= 1

\* Some task calls connect in this step: it leaves "idle" for connect, or the
\* call ends within the step (no task record changes).
ConnectCalled ==
    \E t \in Tasks :
        /\ task[t].pc = "idle"
        /\ \/ task'[t].op = "connect"
           \/ ended'.op = "connect" /\ task' = task

\* C3: connect called while isConnecting() is true throws the precondition
\* error and changes no session field, nor the transport's hook and header.
C3_ConnectWhileConnecting ==
    [][ (isConnecting /\ ConnectCalled)
        => /\ ended'.op = "connect"
           /\ ended'.result = BusyError
           /\ task' = task
           /\ UNCHANGED << session, transport >> ]_vars

\* C3 happens: a connect has just been refused while another is logging in.
C3_Witness ==
    /\ ended.op = "connect"
    /\ ended.result = BusyError
    /\ isConnecting
    /\ \E t \in Tasks : task[t].op = "connect" /\ task[t].pc = "login"

\* C4: after a connect attempt that fails, the refresh token, the canonical
\* host and the API map are what they were when it started, and
\* isConnecting() is false.
C4_FailedConnectRestores ==
    ( /\ ended.op = "connect"
      /\ ended.pre.recorded
      /\ ended.result # Returned(NullValue) )
    => /\ refreshToken = ended.pre.refreshToken
       /\ canonicalHostBaseUrl = ended.pre.canonicalHostBaseUrl
       /\ apiMap = ended.pre.apiMap
       /\ ~isConnecting

\* C5: a connect whose map request fails, on a client without a map, returns
\* a non-null text; afterwards isConnected() is false and apiMap still unset.
C5_MapFailureReturnsText ==
    ( /\ ended.op = "connect"
      /\ ended.pre.recorded
      /\ ended.pre.apiMap = None
      /\ ended.io = <<"failed">> )
    => /\ ended.result.kind = "returned"
       /\ ended.result.val # NullValue
       /\ ~isConnected
       /\ apiMap = None

\* C6: every run of the onAuthFailure hook settles with a boolean; it never
\* throws or rejects.
C6_HookNeverRejects == hookRun.result \in { "none", "true", "false" }

\* C7: at most one token-refresh request is in flight at any time.
C7_OneRefreshInFlight ==
    Cardinality({ t \in Tasks : task[t].pc = "refresh" }) <= 1

\* C8: when the refresh endpoint answers the hook's refresh with a new token
\* pair, the hook returns true, the header and the stored refresh token are
\* the new pair, and the handler gets "reconnecting", then "reconnected".
C8_HookRefreshSucceeds ==
    (hookRun.answer = "ok" /\ notificationHandler # None)
    => /\ hookRun.result = "true"
       /\ authHeader = Some(<<"Bearer  ">> \o hookRun.issued.authToken)
       /\ refreshToken = Some(hookRun.issued.refreshToken)
       /\ hookRun.notified = << "Re-connecting to Atoll Server...",
                                "Re-connected to Atoll Server" >>

\* C9: when the refresh fails, the hook returns false, the handler gets
\* "reconnecting", then "could not reconnect", and the stored refresh token
\* and the header are what they were before the run.
C9_HookRefreshFails ==
    [][ (hookRun'.answer = "failed" /\ notificationHandler # None)
        => /\ hookRun'.result = "false"
           /\ hookRun'.notified =
                  << "Re-connecting to Atoll Server...",
                     "Unable to re-connect to Atoll Server - trying signing in again" >>
           /\ UNCHANGED << refreshToken, authHeader >> ]_vars

\* C10: a fetch succeeds only if the API map has been built for the current
\* canonical host.
C10_FetchNeedsMapOfHost ==
    (IsFetch(ended.op) /\ ended.pre.recorded /\ ended.result.kind = "returned")
    => /\ apiMap # None
       /\ Truthy(canonicalHostBaseUrl)
       /\ apiMapHost = canonicalHostBaseUrl

DisconnectError ==
    Threw(<<"Error", "Unable to disconnect while connection is being established!">>)

\* C11: a connect that returns null leaves isConnected() true; a disconnect
\* that is not refused leaves isConnected() false; and a disconnect called
\* while isConnecting() is true throws the precondition error and changes no
\* session field, nor the transport's hook and header.
C11_ConnectedThenDisconnected ==
    [][ /\ (ended'.op = "connect" /\ ended'.result = Returned(NullValue)) => isConnected'
        /\ (ended'.op = "disconnect")
           => IF isConnecting
              THEN ended'.result = DisconnectError /\ UNCHANGED << session, transport >>
              ELSE ended'.result.kind = "returned" /\ ~isConnected' ]_vars

\* C11 happens: a disconnect has just ended a session that had been given
\* tokens for a host.
C11_Witness ==
    /\ ended.op = "disconnect"
    /\ ended.result.kind = "returned"
    /\ ~isConnected
    /\ authHeader # None
    /\ canonicalHostBaseUrl # None

\* Some task calls setupWithRefreshToken in this step.
SetupCalled ==
    \E t \in Tasks :
        /\ task[t].pc = "idle"
        /\ \/ task'[t].op = "setupWithRefreshToken"
           \/ ended'.op = "setupWithRefreshToken" /\ task' = task

\* C12: setupWithRefreshToken is refused like connect while a connect is in
\* progress, never sends a login request, sends the refresh request with the
\* stored refresh token, and when that request succeeds stores the returned
\* refresh token, sets the Authorization header and returns null.
C12_SetupLikeConnect ==
    [][ /\ (isConnecting /\ SetupCalled)
           => /\ ended'.op = "setupWithRefreshToken"
              /\ ended'.result = BusyError
              /\ UNCHANGED << session, transport >>
        /\ \A t \in Tasks :
              /\ task'[t].op = "setupWithRefreshToken" => task'[t].pc # "login"
              /\ (task'[t].op = "setupWithRefreshToken" /\ task[t].pc = "map"
                    /\ task'[t].pc = "refresh")
                 => task'[t].payload = Some(refreshToken)
        /\ (ended'.op = "setupWithRefreshToken" /\ ended'.io = <<"ok", "ok">>)
           => /\ ended'.result = Returned(NullValue)
              /\ \E p \in TokenPairs :
                    /\ refreshToken' = Some(p.refreshToken)
                    /\ authHeader' = Some(<<"Bearer  ">> \o p.authToken) ]_vars

\* The links with rel `rel` of the entries of the stored map with id `id`, each
\* as the pair of its entry and its place in the entry's links.
MatchingLinks(id, rel) ==
    { p \in { <<e, i>> : e \in Get(apiMap), i \in 1 .. MaxLinks } :
        /\ p[1].id = id
        /\ p[2] \in DOMAIN p[1].links
        /\ p[1].links[p[2]].rel = rel }

NotFoundTexts ==
    { "Unable to find API Map Item with ID",
      "Unable to find a matching API Map Item Link with rel" }
AmbiguousText == "Found matching API Map Item Links with rel"

\* What the claim expects of a resolution that found n matching links.
ResolvesAs(result, id, rel) ==
    LET matches == MatchingLinks(id, rel) IN
    /\ Cardinality(matches) = 1
       => \E p \in matches : result = Returned(p[1].links[p[2]].uri)
    /\ Cardinality(matches) = 0
       => result.kind = "threw" /\ result.val[2] \in NotFoundTexts
    /\ Cardinality(matches) > 1
       => result.kind = "threw" /\ result.val[2] = AmbiguousText

\* C13: on a stored map (its ids unique), relative resolution returns the uri
\* of the one link of the entry with the rel, throws a not-found error when the
\* id is absent or no link has the rel, and an ambiguity error when several
\* have it; absolute resolution, the host being set, returns the host followed
\* by the relative result, or throws what relative resolution throws.
C13_Resolution ==
    [][ \A id \in UtilIds, rel \in UtilRels :
          /\ (apiMap # None /\ LookupRelativeUriFromApiMapCall(id, rel))
             => ResolvesAs(ended'.result, id, rel)
          /\ (apiMap # None /\ Truthy(canonicalHostBaseUrl) /\ LookupUriFromApiMapCall(id, rel))
             => /\ ended'.result.kind = "threw" => ResolvesAs(ended'.result, id, rel)
                /\ ended'.result.kind = "returned"
                   => ResolvesAs(Returned(SubSeq(ended'.result.val,
                                                 Len(Get(canonicalHostBaseUrl)) + 1,
                                                 Len(ended'.result.val))), id, rel)
                      /\ SubSeq(ended'.result.val, 1, Len(Get(canonicalHostBaseUrl)))
                           = Get(canonicalHostBaseUrl) ]_vars

\* C13 happens: a resolution on a stored map has just met two links with the
\* rel asked for.
C13_Witness ==
    /\ apiMap # None
    /\ ended.op = "lookupRelativeUriFromApiMap"
    /\ ended.result.kind = "threw"
    /\ ended.result.val[2] = AmbiguousText

\* C14: canonicalizing a canonicalized URL changes nothing, and "https://h/"
\* canonicalizes to "https://h".
C14_CanonicalizeIdempotent ==
    /\ canonicalizeUrl(<<"https://h", "/">>) = <<"https://h">>
    /\ ended.op = "canonicalizeUrl"
       => canonicalizeUrl(ended.result.val) = ended.result.val

\* The places of the links with rel `rel` in `links`.
PlacesOf(links, rel) == { i \in DOMAIN links : links[i].rel = rel }

\* C16: findLinkByRel returns null when no link of the list has the rel, the
\* link when exactly one has it, and throws when several have it;
\* findLinkUriByRel returns null, that link's uri, and throws, likewise.
C16_FindLink ==
    [][ \A links \in UtilLinkLists, rel \in UtilRels :
          LET places == PlacesOf(links, rel) IN
          /\ FindLinkByRelCall(links, rel)
             => /\ places = {} => ended'.result = Returned(None)
                /\ Cardinality(places) = 1
                   => \E i \in places : ended'.result = Returned(Some(links[i]))
                /\ Cardinality(places) > 1 => ended'.result.kind = "threw"
          /\ FindLinkUriByRelCall(links, rel)
             => /\ places = {} => ended'.result = Returned(None)
                /\ Cardinality(places) = 1
                   => \E i \in places : ended'.result = Returned(Some(links[i].uri))
                /\ Cardinality(places) > 1 => ended'.result.kind = "threw" ]_vars

\* C16 happens: findLinkUriByRel has just met two links with the rel asked for.
C16_Witness ==
    /\ ended.op = "findLinkUriByRel"
    /\ ended.result.kind = "threw"

\* C15: fetchSprintByUri returns an absent result when the transport reports
\* a 404, and rejects with the transport's error for every other failure.
C15_SprintNotFoundIsAbsent ==
    [][ \A t \in Tasks, e \in TransportErrors :
          (task[t].op = "fetchSprintByUri" /\ FetchFailed(t, e))
          => ended'.result = IF e.status = "404" THEN Returned(NullValue) ELSE Rejected(e) ]_vars

\* The entries of a response by id: of several items with one id the last.
EntriesOf(items) ==
    { items[i] : i \in { j \in DOMAIN items :
                            \A k \in DOMAIN items : k > j => items[k].id # items[j].id } }

\* C17: when the map request of a connect or a setupWithRefreshToken fails
\* the stored map is unchanged; when it succeeds the stored map becomes
\* exactly the entries of the response, whatever it was before.
C17_MapIndexAtomic ==
    [][ \A t \in Tasks :
          /\ \A e \in TransportErrors :
                (ConnectMapFailed(t, e) \/ SetupMapFailed(t, e)) => apiMap' = apiMap
          /\ \A m \in MapResponses :
                (ConnectMapLoaded(t, m) \/ SetupMapLoaded(t, m))
                => apiMap' = Some(EntriesOf(m)) ]_vars

\* C17 happens: a call has replaced a stored map by one that lacks an entry
\* of it.
C17_Witness ==
    /\ ended.op \in ConnectOps
    /\ ended.pre.recorded
    /\ ended.pre.apiMap # None
    /\ apiMap # None
    /\ \E e \in Get(ended.pre.apiMap) : e \notin Get(apiMap)

\* C18: a refresh request carries the refresh token stored when it is sent
\* and has the transport's retry suppressed; the hook runs only for a request
\* in flight whose retry is not suppressed; and the stored refresh token and
\* the Authorization header change when a refresh request succeeds and are
\* left alone when it fails.
C18_RefreshCall ==
    [][ /\ \A t \in Tasks :
              /\ (task[t].pc # "refresh" /\ task'[t].pc = "refresh")
                 => task'[t].payload = Some(refreshToken) /\ task'[t].skipRetry
              /\ (task[t].pc = "refresh" /\ task'[t].pc = "idle")
                 => IF ended'.io = <<"ok", "ok">>
                    THEN \E p \in TokenPairs :
                           /\ refreshToken' = Some(p.refreshToken)
                           /\ authHeader' = Some(<<"Bearer  ">> \o p.authToken)
                    ELSE UNCHANGED << refreshToken, authHeader >>
        /\ hookRun'.result # "none"
           => /\ \E t \in Tasks : task[t].pc \notin { "idle", "refresh" } /\ ~task[t].skipRetry
              /\ hookRun'.sent # None => hookRun'.sent = Some(refreshToken)
              /\ hookRun'.answer = "failed" => UNCHANGED << refreshToken, authHeader >> ]_vars

\* C18 happens: a refresh request carrying a stored refresh token is in
\* flight, its retry suppressed.
C18_Witness ==
    \E t \in Tasks :
        /\ task[t].pc = "refresh"
        /\ task[t].skipRetry
        /\ refreshToken # None
        /\ task[t].payload = Some(refreshToken)

\* C19: connect canonicalizes the host before it requests the map, and sends
\* the login request only on the answer to the map request, with the map
\* stored, the hook registered with the refresh URI of that map, and the login
\* URI resolved from that map.
C19_ConnectOrder ==
    [][ \A t \in Tasks :
          /\ (task[t].pc = "idle" /\ task'[t].op = "connect")
             => /\ task'[t].pc = "map"
                /\ \E h \in HostInputs : task'[t].host = canonicalizeUrl(h)
                /\ task'[t].uri = task'[t].host \o MAP_RELATIVE_URL
          /\ (task'[t].op = "connect" /\ task'[t].pc = "login" /\ task[t].pc # "login")
             => /\ task[t].op = "connect" /\ task[t].pc = "map"
                /\ apiMap' # None
                /\ Truthy(canonicalHostBaseUrl)
                /\ onAuthFailure' =
                       Some(Get(canonicalHostBaseUrl)
                            \o lookupRelativeUriFromApiMap(apiMap', "refresh-token", "action").val)
                /\ task'[t].uri =
                       task[t].host \o lookupRelativeUriFromApiMap(apiMap', "user-auth", "action").val ]_vars

\* C19 happens: a connect has its login request in flight.
C19_Witness ==
    \E t \in Tasks :
        /\ task[t].op = "connect"
        /\ task[t].pc = "login"
        /\ apiMap # None
        /\ onAuthFailure # None

\* C20: a disconnect changes no session field but the refresh token; on a
\* client that is neither connected nor connecting it changes nothing at all
\* and returns.
C20_DisconnectFrame ==
    [][ ended'.op = "disconnect"
        => /\ UNCHANGED << connecting, apiMap, canonicalHostBaseUrl, notificationHandler >>
           /\ (~isConnected /\ ~isConnecting)
              => /\ UNCHANGED << session, transport >>
                 /\ ended'.result.kind = "returned" ]_vars

\* C20 happens: a disconnect has just cleared the refresh token of a client
\* that keeps its map and host.
C20_Witness ==
    /\ ended.op = "disconnect"
    /\ ended.pre.recorded
    /\ ended.pre.refreshToken # None
    /\ refreshToken = None
    /\ apiMap # None /\ apiMap = ended.pre.apiMap
    /\ Truthy(canonicalHostBaseUrl)

\* C21: a run of the onAuthFailure hook, whatever requests are in flight,
\* changes neither the API map, the canonical host nor the connecting flag,
\* nor any other state but the stored refresh token and the Authorization
\* header.
C21_HookFrame ==
    [][ hookRun'.result # "none"
        => UNCHANGED << apiMap, canonicalHostBaseUrl, connecting, notificationHandler,
                        onAuthFailure, task >> ]_vars

\* C21 happens: the hook has just run while the requests of two calls, one of
\* them a fetch, were in flight.
C21_Witness ==
    /\ hookRun.result # "none"
    /\ apiMap # None
    /\ \E t, u \in Tasks :
          /\ t # u
          /\ IsFetch(task[t].op) /\ task[t].pc = "get"
          /\ task[u].pc # "idle"

\* The text holds the symbol.
Contains(text, symbol) == \E i \in DOMAIN text : text[i] = symbol

\* C22: when the login request of connect or the refresh request of
\* setupWithRefreshToken is rejected, an error carrying status and message
\* makes the call return a text holding both, and an error classified as
\* unexpected makes it throw.
C22_FailureAsTextOrThrow ==
    [][ \A t \in Tasks, e \in TransportErrors :
          (ConnectLoginFailed(t, e) \/ SetupRefreshFailed(t, e))
          => IF e.errorType = "UnexpectedError"
             THEN ended'.result.kind = "threw"
             ELSE /\ ended'.result.kind = "returned"
                  /\ ended'.result.val # NullValue
                  /\ Contains(ended'.result.val, e.status)
                  /\ Contains(ended'.result.val, e.message) ]_vars

\* C22 happens: a connect has just thrown on a rejected login request.
C22_Witness ==
    /\ ended.op = "connect"
    /\ ended.io = <<"ok", "failed">>
    /\ ended.result.kind = "threw"

\* C23: a disconnect leaves the hook registered on the transport and the
\* transport's Authorization header as they were.
C23_DisconnectKeepsTransport ==
    [][ ended'.op = "disconnect" => UNCHANGED << onAuthFailure, authHeader >> ]_vars

\* C23 happens: the hook has just run on a client that was given tokens and
\* then disconnected, the header still set.
C23_Witness ==
    /\ hookRun.result # "none"
    /\ onAuthFailure # None
    /\ authHeader # None
    /\ ~isConnected
====
